---------------------------- MODULE Spec2Model ----------------------------
(***************************************************************************)
(* ai-doc-pal: the vector store (VectorDatabase), the indexing commands    *)
(* (init, update) and the MCP read_file / search_docs handlers.            *)
(*                                                                         *)
(* Texts are sequences of one-character strings.  The SQLite tables are    *)
(* sets of rows; the AUTOINCREMENT counters are part of the database.      *)
(* The created_at / updated_at columns of documents are not modelled.      *)
(***************************************************************************)
EXTENDS Integers, Sequences, FiniteSets, TLC

VARIABLES
    db,       \* the SQLite database of one base (VectorDatabase.db)
    call,     \* the last VectorDatabase method called directly, with its result
    hist,     \* history of the direct calls: first id and last hash per path
    rd,       \* the last tool request of the MCP server, with its response
    srv,      \* the MCP server: its cached embedding provider
    fs,       \* the markdown files under the docs root: path -> content
    sys,      \* the base on this machine: database file, registration, clock
    run,      \* the init / update command in progress, or the last one's summary
    ghost,    \* what the init pass read and stored, per path
    ck        \* the last call of a function of chunker.ts, with what it returned

storeVars == <<db, call, hist>>
indexVars == <<fs, sys, run, ghost>>
mcpVars == <<rd, srv>>
vars == <<db, call, hist, rd, srv, fs, sys, run, ghost, ck>>

Null == "null"

\* what stands for the content of a file that is not there or cannot be read
ENOENT == <<"ENOENT">>

-----------------------------------------------------------------------------
(* Bounds of the model *)

MaxDocSeq   == 2      \* document ids handed out by direct calls
MaxChunkSeq == 3      \* chunk ids handed out by direct calls
MaxK        == 2      \* largest k of a search

-----------------------------------------------------------------------------
(* Values the calls draw their arguments from *)

embeddingDimension == 2

PathA  == <<"a", ".", "m", "d">>
PathB  == <<"b", ".", "m", "d">>
Paths  == {PathA, PathB}
Hashes == {"h1", "h2"}
Titles == {"T"}

StoredVectors == {<<0, 0>>, <<3, 4>>, <<3>>}
QueryVectors  == {<<0, 0>>, <<3, 0>>, <<0, 4, 0>>}

ChunkTexts == {<<"x">>}

-----------------------------------------------------------------------------
(* VectorDatabase *)

\* constructor + initSchema: empty tables, embeddings declared float[dimension]
NewDatabase(dimension) ==
    [ documents |-> {}, chunks |-> {}, embeddings |-> {},
      docSeq |-> 0, chunkSeq |-> 0,
      info |-> [k \in {} |-> Null],
      dimension |-> dimension ]

HasDocument(d, path) == \E r \in d.documents : r.file_path = path

\* getDocumentByPath
GetDocumentByPath(d, path) ==
    IF HasDocument(d, path)
    THEN CHOOSE r \in d.documents : r.file_path = path
    ELSE Null

\* a variant of upsertDocument that leaves an existing row as it is
UpsertDocumentMissingUpdate(d, meta) ==
    IF HasDocument(d, meta.filePath)
    THEN [ db |-> d, id |-> GetDocumentByPath(d, meta.filePath).id ]
    ELSE [ db |-> [d EXCEPT !.docSeq = @ + 1,
                            !.documents = @ \cup
                               {[ id |-> d.docSeq + 1, file_path |-> meta.filePath,
                                  title |-> meta.title,
                                  last_modified |-> meta.lastModified,
                                  file_hash |-> meta.fileHash ]}],
           id |-> d.docSeq + 1 ]

\* a variant of upsertDocument that inserts a row whether or not the path has one
UpsertDocumentAlwaysInsert(d, meta) ==
    [ db |-> [d EXCEPT !.docSeq = @ + 1,
                       !.documents = @ \cup
                          {[ id |-> d.docSeq + 1, file_path |-> meta.filePath,
                             title |-> meta.title,
                             last_modified |-> meta.lastModified,
                             file_hash |-> meta.fileHash ]}],
      id |-> d.docSeq + 1 ]

\* upsertDocument: the new state of the database and the id returned
UpsertDocument(d, meta) ==
    IF HasDocument(d, meta.filePath)
    THEN LET existing == GetDocumentByPath(d, meta.filePath)
         IN  [ db |-> [d EXCEPT !.documents =
                          (@ \ {existing}) \cup
                          {[existing EXCEPT !.title = meta.title,
                                            !.last_modified = meta.lastModified,
                                            !.file_hash = meta.fileHash]}],
               id |-> existing.id ]
    ELSE [ db |-> [d EXCEPT !.docSeq = @ + 1,
                            !.documents = @ \cup
                               {[ id |-> d.docSeq + 1, file_path |-> meta.filePath,
                                  title |-> meta.title,
                                  last_modified |-> meta.lastModified,
                                  file_hash |-> meta.fileHash ]}],
           id |-> d.docSeq + 1 ]

\* documentNeedsUpdate
DocumentNeedsUpdate(d, filePath, fileHash) ==
    \/ ~HasDocument(d, filePath)
    \/ GetDocumentByPath(d, filePath).file_hash # fileHash

\* a variant of deleteDocumentChunks that deletes the chunks rows only
DeleteDocumentChunksKeepEmbeddings(d, documentId) ==
    [d EXCEPT !.chunks = {c \in @ : c.document_id # documentId}]

\* deleteDocumentChunks: the embeddings of the document's chunks, then the chunks
DeleteDocumentChunks(d, documentId) ==
    LET chunkIds == {c.id : c \in {x \in d.chunks : x.document_id = documentId}}
    IN  [d EXCEPT !.embeddings = {e \in @ : e.chunk_id \notin chunkIds},
                  !.chunks = {c \in @ : c.document_id # documentId}]

\* The chunks row addChunk inserts (AUTOINCREMENT id)
ChunkRow(d, chunk) ==
    [ id |-> d.chunkSeq + 1, document_id |-> chunk.documentId,
      content |-> chunk.content, chunk_index |-> chunk.chunkIndex,
      line_start |-> chunk.lineStart, line_end |-> chunk.lineEnd,
      heading |-> chunk.heading ]

\* addChunk: two INSERT statements, each committed on its own.
\*   - the chunks INSERT fails on the FOREIGN KEY when the document is unknown
\*     (better-sqlite3 enforces foreign keys): nothing is written;
\*   - the embeddings INSERT is reached with the chunks row already written: it
\*     throws when the embedding is missing (embedding.buffer of undefined) or
\*     when its length is not the float[dimension] of the vec0 table.
AddChunk(d, chunk, embedding) ==
    IF ~\E r \in d.documents : r.id = chunk.documentId
    THEN [ db |-> d, ok |-> FALSE, id |-> 0 ]
    ELSE LET row == ChunkRow(d, chunk)
             d1  == [d EXCEPT !.chunkSeq = @ + 1, !.chunks = @ \cup {row}]
         IN  IF embedding = Null \/ Len(embedding) # d.dimension
             THEN [ db |-> d1, ok |-> FALSE, id |-> 0 ]
             ELSE [ db |-> [d1 EXCEPT !.embeddings = @ \cup
                               {[chunk_id |-> row.id, embedding |-> embedding]}],
                    ok |-> TRUE, id |-> row.id ]

\* getStats
GetStats(d) ==
    [ documents  |-> Cardinality(d.documents),
      chunks     |-> Cardinality(d.chunks),
      embeddings |-> Cardinality(d.embeddings) ]

-----------------------------------------------------------------------------
(* search: the vec0 KNN query *)

RECURSIVE SumSq(_, _, _)
SumSq(a, b, i) ==
    IF i > Len(a) THEN 0
    ELSE (a[i] - b[i]) * (a[i] - b[i]) + SumSq(a, b, i + 1)

\* exact square root (the vectors of the model have integer distances)
Sqrt(n) == CHOOSE r \in 0..n : r * r = n

\* e.distance of vec0: the L2 distance of the stored vector to the query
Distance(a, b) == Sqrt(SumSq(a, b, 1))

\* score: 1 / (1 + row.distance), kept as a fraction
Score(distance) == [num |-> 1, den |-> 1 + distance]

\* the orders in which ORDER BY e.distance can list the embeddings (ties any way)
RECURSIVE DistanceOrders(_, _)
DistanceOrders(rows, q) ==
    IF rows = {} THEN {<<>>}
    ELSE UNION { { <<r>> \o s : s \in DistanceOrders(rows \ {r}, q) } :
                 r \in { x \in rows : \A y \in rows :
                           Distance(x.embedding, q) <= Distance(y.embedding, q) } }

Take(s, n) == SubSeq(s, 1, IF n < Len(s) THEN n ELSE Len(s))

\* JOIN chunks c ON c.id = e.chunk_id JOIN documents d ON d.id = c.document_id,
\* and the map to SearchResult
RECURSIVE JoinRows(_, _, _)
JoinRows(d, es, q) ==
    IF es = <<>> THEN <<>>
    ELSE LET e  == Head(es)
             cs == {c \in d.chunks : c.id = e.chunk_id}
         IN  IF cs = {} \/ ~\E r \in d.documents :
                               r.id = (CHOOSE c \in cs : TRUE).document_id
             THEN JoinRows(d, Tail(es), q)
             ELSE LET c   == CHOOSE x \in cs : TRUE
                      doc == CHOOSE r \in d.documents : r.id = c.document_id
                      dist == Distance(e.embedding, q)
                  IN  <<[ chunkId |-> e.chunk_id, documentId |-> c.document_id,
                          filePath |-> doc.file_path, content |-> c.content,
                          lineStart |-> c.line_start, lineEnd |-> c.line_end,
                          heading |-> c.heading, distance |-> dist,
                          score |-> Score(dist) ]>>
                      \o JoinRows(d, Tail(es), q)

\* a variant of search without the k constraint
SearchNoLimit(d, queryEmbedding, limit) ==
    { JoinRows(d, o, queryEmbedding) : o \in DistanceOrders(d.embeddings, queryEmbedding) }

\* search: the results the query can return (the k nearest, ascending by distance);
\* called with a query of another length than the dimension it throws
Search(d, queryEmbedding, limit) ==
    { JoinRows(d, Take(o, limit), queryEmbedding) :
        o \in DistanceOrders(d.embeddings, queryEmbedding) }

-----------------------------------------------------------------------------
(* Texts and the regular expressions of the chunker *)

WhiteSpace      == {" ", "\n", "\t", "\r"}
LineTerminators == {"\n", "\r"}
UpperChars == {"A", "B", "C", "D", "E", "F", "G", "H", "I", "J", "K", "L", "M",
               "N", "O", "P", "Q", "R", "S", "T", "U", "V", "W", "X", "Y", "Z"}
LowerChars == {"a", "b", "c", "d", "e", "f", "g", "h", "i", "j", "k", "l", "m",
               "n", "o", "p", "q", "r", "s", "t", "u", "v", "w", "x", "y", "z"}
DigitChars == {"0", "1", "2", "3", "4", "5", "6", "7", "8", "9"}
AlnumChars == UpperChars \cup LowerChars \cup DigitChars

\* the pieces of s between the occurrences of c
RECURSIVE SplitBy(_, _)
SplitBy(s, c) ==
    IF s = <<>> THEN << <<>> >>
    ELSE LET rest == SplitBy(Tail(s), c)
         IN  IF Head(s) = c
             THEN << <<>> >> \o rest
             ELSE << <<Head(s)>> \o Head(rest) >> \o Tail(rest)

RECURSIVE TrimStart(_)
TrimStart(s) ==
    IF s # <<>> /\ Head(s) \in WhiteSpace THEN TrimStart(Tail(s)) ELSE s

RECURSIVE TrimEnd(_)
TrimEnd(s) ==
    IF s # <<>> /\ s[Len(s)] \in WhiteSpace
    THEN TrimEnd(SubSeq(s, 1, Len(s) - 1))
    ELSE s

\* String.prototype.trim
Trim(s) == TrimEnd(TrimStart(s))

\* the text from index i on
From(s, i) == SubSeq(s, i, Len(s))

\* String.prototype.slice(-n): the last n characters; slice(-0) is slice(0)
SliceLast(s, n) ==
    IF n = 0 \/ n >= Len(s) THEN s ELSE SubSeq(s, Len(s) - n + 1, Len(s))

MatchesAt(text, word, i) ==
    /\ i + Len(word) - 1 <= Len(text)
    /\ SubSeq(text, i, i + Len(word) - 1) = word

\* the first index from i on whose character is outside set (Len + 1 if none)
RECURSIVE SkipWhile(_, _, _)
SkipWhile(text, i, set) ==
    IF i <= Len(text) /\ text[i] \in set THEN SkipWhile(text, i + 1, set) ELSE i

\* the first index from i on whose character is inside set (Len + 1 if none)
RECURSIVE SkipUntil(_, _, _)
SkipUntil(text, i, set) ==
    IF i <= Len(text) /\ text[i] \notin set THEN SkipUntil(text, i + 1, set) ELSE i

\* the first index from i on where word occurs (Len + 1 if nowhere)
RECURSIVE IndexOf(_, _, _)
IndexOf(text, word, i) ==
    IF i > Len(text) THEN Len(text) + 1
    ELSE IF MatchesAt(text, word, i) THEN i
    ELSE IndexOf(text, word, i + 1)

AtLineStart(text, i) == i = 1 \/ text[i - 1] \in LineTerminators

\* replace(/^word\s+.*$/gm, ''): \s+ takes the whole run of white space (line
\* ends included), .* the rest of the line reached
RECURSIVE StripDeclarations(_, _, _)
StripDeclarations(text, word, i) ==
    IF i > Len(text) THEN <<>>
    ELSE IF /\ AtLineStart(text, i)
            /\ MatchesAt(text, word, i)
            /\ i + Len(word) <= Len(text)
            /\ text[i + Len(word)] \in WhiteSpace
    THEN StripDeclarations(text, word,
             SkipUntil(text, SkipWhile(text, i + Len(word), WhiteSpace),
                       LineTerminators))
    ELSE <<text[i]>> \o StripDeclarations(text, word, i + 1)

OpensComponent(text, i) ==
    /\ i + 1 <= Len(text)
    /\ text[i] = "<"
    /\ text[i + 1] \in UpperChars

\* replace(/<[A-Z][a-zA-Z0-9]*[^>]*\/>/g, '')
RECURSIVE StripSelfClosing(_, _)
StripSelfClosing(text, i) ==
    IF i > Len(text) THEN <<>>
    ELSE LET j == SkipUntil(text, i + 2, {">"})
         IN  IF /\ OpensComponent(text, i)
                /\ j <= Len(text)
                /\ j - 1 >= i + 2
                /\ text[j - 1] = "/"
             THEN StripSelfClosing(text, j + 1)
             ELSE <<text[i]>> \o StripSelfClosing(text, i + 1)

\* the closing tag </name>
ClosingTag(name) == <<"<", "/">> \o name \o <<">">>

\* /<([A-Z][a-zA-Z0-9]*)[^>]*>[\s\S]*?<\/\1>/ tried at i: the index after the
\* match, or 0.  The name is the longest prefix of the tag name whose closing
\* tag occurs after the opening tag's ">"; the first such closing tag ends it.
RECURSIVE BlockEnd(_, _, _)
BlockEnd(text, i, nameLen) ==
    IF nameLen = 0 THEN 0
    ELSE LET gt    == SkipUntil(text, i + 1 + nameLen, {">"})
             close == ClosingTag(SubSeq(text, i + 1, i + nameLen))
             c     == IndexOf(text, close, gt + 1)
         IN  IF gt <= Len(text) /\ c <= Len(text)
             THEN c + Len(close)
             ELSE BlockEnd(text, i, nameLen - 1)

\* replace(/<([A-Z][a-zA-Z0-9]*)[^>]*>[\s\S]*?<\/\1>/g, '')
RECURSIVE StripBlocks(_, _)
StripBlocks(text, i) ==
    IF i > Len(text) THEN <<>>
    ELSE LET e == IF OpensComponent(text, i)
                  THEN BlockEnd(text, i, SkipWhile(text, i + 2, AlnumChars) - i - 1)
                  ELSE 0
         IN  IF e > 0 THEN StripBlocks(text, e)
             ELSE <<text[i]>> \o StripBlocks(text, i + 1)

\* replace(/<\/?[A-Z][a-zA-Z0-9]*[^>]*>/g, '')
RECURSIVE StripTags(_, _)
StripTags(text, i) ==
    IF i > Len(text) THEN <<>>
    ELSE LET n == IF i + 1 <= Len(text) /\ text[i + 1] = "/" THEN i + 2 ELSE i + 1
             j == SkipUntil(text, n + 1, {">"})
         IN  IF /\ text[i] = "<"
                /\ n <= Len(text)
                /\ text[n] \in UpperChars
                /\ j <= Len(text)
             THEN StripTags(text, j + 1)
             ELSE <<text[i]>> \o StripTags(text, i + 1)

\* replace(/\n{3,}/g, '\n\n')
RECURSIVE CollapseBlankLines(_, _)
CollapseBlankLines(text, i) ==
    IF i > Len(text) THEN <<>>
    ELSE LET j == SkipWhile(text, i, {"\n"})
         IN  IF j - i >= 3 THEN <<"\n", "\n">> \o CollapseBlankLines(text, j)
             ELSE <<text[i]>> \o CollapseBlankLines(text, i + 1)

-----------------------------------------------------------------------------
(* chunker.ts *)

maxChunkSize == 1000
chunkOverlap == 100

DEFAULT_OPTIONS ==
    [ maxChunkSize |-> maxChunkSize, chunkOverlap |-> chunkOverlap,
      respectHeadings |-> TRUE ]

\* stripMdxComponents
stripMdxComponents(content) ==
    LET r1 == StripDeclarations(content, <<"i", "m", "p", "o", "r", "t">>, 1)
        r2 == StripDeclarations(r1, <<"e", "x", "p", "o", "r", "t">>, 1)
        r3 == StripSelfClosing(r2, 1)
        r4 == StripBlocks(r3, 1)
        r5 == StripTags(r4, 1)
        r6 == CollapseBlankLines(r5, 1)
    IN  Trim(r6)

\* line.match(/^(#{1,6})\s+(.+)$/): the number of '#' marks, or 0 (no match)
HeadingLevel(line) ==
    LET n == SkipWhile(line, 1, {"#"}) - 1
    IN  IF /\ n \in 1..6
           /\ \E w \in 1..Len(line) :
                /\ n + w < Len(line)
                /\ \A k \in (n + 1)..(n + w) : line[k] \in WhiteSpace
                /\ \A k \in (n + w + 1)..Len(line) : line[k] \notin LineTerminators
        THEN n ELSE 0

\* headingMatch[2].trim()
HeadingText(line) == Trim(From(line, HeadingLevel(line) + 2))

HasContent(section) == Trim(section.content) # <<>>

\* the loop of parseIntoSections over lines[i..]; st = [sections, cur, line]
RECURSIVE ParseLines(_, _, _)
ParseLines(lines, i, st) ==
    IF i > Len(lines)
    THEN IF HasContent(st.cur)
         THEN Append(st.sections, [st.cur EXCEPT !.lineEnd = st.line - 1])
         ELSE st.sections
    ELSE LET line == lines[i]
         IN  IF HeadingLevel(line) > 0
             THEN ParseLines(lines, i + 1,
                    [ sections |->
                        IF HasContent(st.cur)
                        THEN Append(st.sections, [st.cur EXCEPT !.lineEnd = st.line - 1])
                        ELSE st.sections,
                      cur |-> [ heading |-> HeadingText(line),
                                headingLevel |-> HeadingLevel(line),
                                content |-> line \o <<"\n">>,
                                lineStart |-> st.line, lineEnd |-> st.line ],
                      line |-> st.line + 1 ])
             ELSE ParseLines(lines, i + 1,
                    [ st EXCEPT !.cur.content = @ \o line \o <<"\n">>,
                                !.line = @ + 1 ])

\* parseIntoSections that takes no line for a heading: one section
parseIntoSectionsNoHeadings(content) ==
    IF Trim(content) = <<>> THEN <<>>
    ELSE << [ heading |-> Null, headingLevel |-> 0,
              content |-> content \o <<"\n">>,
              lineStart |-> 1, lineEnd |-> Len(SplitBy(content, "\n")) ] >>

\* parseIntoSections counting the lines from 0
parseIntoSectionsZeroBased(content) ==
    ParseLines(SplitBy(content, "\n"), 1,
               [ sections |-> <<>>,
                 cur |-> [ heading |-> Null, headingLevel |-> 0, content |-> <<>>,
                           lineStart |-> 0, lineEnd |-> 0 ],
                 line |-> 0 ])

\* parseIntoSections
parseIntoSections(content) ==
    ParseLines(SplitBy(content, "\n"), 1,
               [ sections |-> <<>>,
                 cur |-> [ heading |-> Null, headingLevel |-> 0, content |-> <<>>,
                           lineStart |-> 1, lineEnd |-> 1 ],
                 line |-> 1 ])

\* content.split(/\n\n+/) from index i on, for a text that neither starts nor
\* ends with a line end
RECURSIVE SplitParagraphs(_, _, _)
SplitParagraphs(text, i, cur) ==
    IF i > Len(text) THEN <<cur>>
    ELSE LET j == SkipWhile(text, i, {"\n"})
         IN  IF j - i >= 2 THEN <<cur>> \o SplitParagraphs(text, j, <<>>)
             ELSE SplitParagraphs(text, i + 1, Append(cur, text[i]))

\* the paragraph loop of splitSection; st = [chunks, currentChunk, chunkStart,
\* currentLine, chunkIndex]
RECURSIVE SplitLoop(_, _, _, _, _, _)
SplitLoop(section, paragraphs, i, maxSize, overlap, st) ==
    IF i > Len(paragraphs)
    THEN IF Trim(st.currentChunk) # <<>>
         THEN Append(st.chunks,
                [ content |-> Trim(st.currentChunk), index |-> st.chunkIndex,
                  lineStart |-> st.chunkStart, lineEnd |-> section.lineEnd,
                  heading |-> section.heading ])
         ELSE st.chunks
    ELSE LET paragraph      == paragraphs[i]
             paragraphLines == Len(SplitBy(paragraph, "\n"))
         IN  IF /\ Len(st.currentChunk) + Len(paragraph) + 2 > maxSize
                /\ st.currentChunk # <<>>
             THEN SplitLoop(section, paragraphs, i + 1, maxSize, overlap,
                    [ chunks |-> Append(st.chunks,
                        [ content |-> Trim(st.currentChunk), index |-> st.chunkIndex,
                          lineStart |-> st.chunkStart, lineEnd |-> st.currentLine - 1,
                          heading |-> section.heading ]),
                      currentChunk |-> SliceLast(st.currentChunk, overlap)
                                         \o <<"\n", "\n">> \o paragraph,
                      chunkStart |-> st.currentLine,
                      currentLine |-> st.currentLine + paragraphLines + 1,
                      chunkIndex |-> st.chunkIndex + 1 ])
             ELSE SplitLoop(section, paragraphs, i + 1, maxSize, overlap,
                    [ st EXCEPT !.currentChunk =
                                   IF @ # <<>> THEN @ \o <<"\n", "\n">> \o paragraph
                                   ELSE paragraph,
                                !.currentLine = @ + paragraphLines + 1 ])

\* splitSection cutting the section at maxSize: what follows is dropped
splitSectionTruncating(section, maxSize, overlap) ==
    << [ content |-> IF Len(Trim(section.content)) <= maxSize
                     THEN Trim(section.content)
                     ELSE SubSeq(Trim(section.content), 1, maxSize),
         index |-> 0,
         lineStart |-> section.lineStart, lineEnd |-> section.lineEnd,
         heading |-> section.heading ] >>

\* splitSection
splitSection(section, maxSize, overlap) ==
    LET content == Trim(section.content)
    IN  IF Len(content) <= maxSize
        THEN << [ content |-> content, index |-> 0,
                  lineStart |-> section.lineStart, lineEnd |-> section.lineEnd,
                  heading |-> section.heading ] >>
        ELSE SplitLoop(section, SplitParagraphs(content, 1, <<>>), 1, maxSize, overlap,
                       [ chunks |-> <<>>, currentChunk |-> <<>>,
                         chunkStart |-> section.lineStart,
                         currentLine |-> section.lineStart, chunkIndex |-> 0 ])

RECURSIVE ConcatAll(_)
ConcatAll(seqs) == IF seqs = <<>> THEN <<>> ELSE Head(seqs) \o ConcatAll(Tail(seqs))

\* the flat loop of chunkMarkdown; st as in SplitLoop
RECURSIVE FlatLoop(_, _, _, _, _)
FlatLoop(lines, i, maxSize, overlap, st) ==
    IF i > Len(lines)
    THEN IF Trim(st.currentChunk) # <<>>
         THEN Append(st.chunks,
                [ content |-> Trim(st.currentChunk), index |-> st.chunkIndex,
                  lineStart |-> st.chunkStart, lineEnd |-> st.currentLine - 1,
                  heading |-> Null ])
         ELSE st.chunks
    ELSE LET line == lines[i]
         IN  IF /\ Len(st.currentChunk) + Len(line) + 1 > maxSize
                /\ st.currentChunk # <<>>
             THEN FlatLoop(lines, i + 1, maxSize, overlap,
                    [ chunks |-> Append(st.chunks,
                        [ content |-> Trim(st.currentChunk), index |-> st.chunkIndex,
                          lineStart |-> st.chunkStart, lineEnd |-> st.currentLine - 1,
                          heading |-> Null ]),
                      currentChunk |-> SliceLast(st.currentChunk, overlap)
                                         \o <<"\n">> \o line,
                      chunkStart |-> st.currentLine,
                      currentLine |-> st.currentLine + 1,
                      chunkIndex |-> st.chunkIndex + 1 ])
             ELSE FlatLoop(lines, i + 1, maxSize, overlap,
                    [ st EXCEPT !.currentChunk =
                                   IF @ # <<>> THEN @ \o <<"\n">> \o line ELSE line,
                                !.currentLine = @ + 1 ])

\* chunkMarkdown without the global index: every chunk keeps the index it has
\* in its section
chunkMarkdownSectionIndex(content, opts) ==
    LET cleanContent == stripMdxComponents(content)
    IN  IF opts.respectHeadings
        THEN LET sections == parseIntoSections(cleanContent)
             IN  ConcatAll([ k \in 1..Len(sections) |->
                     splitSection(sections[k], opts.maxChunkSize,
                                  opts.chunkOverlap) ])
        ELSE FlatLoop(SplitBy(cleanContent, "\n"), 1, opts.maxChunkSize,
                      opts.chunkOverlap,
                      [ chunks |-> <<>>, currentChunk |-> <<>>, chunkStart |-> 1,
                        currentLine |-> 1, chunkIndex |-> 0 ])

\* chunkMarkdown(content, options)
chunkMarkdown(content, opts) ==
    LET cleanContent == stripMdxComponents(content)
    IN  IF opts.respectHeadings
        THEN LET sections  == parseIntoSections(cleanContent)
                 allChunks == ConcatAll([ k \in 1..Len(sections) |->
                                  splitSection(sections[k], opts.maxChunkSize,
                                               opts.chunkOverlap) ])
             IN  [ k \in 1..Len(allChunks) |-> [allChunks[k] EXCEPT !.index = k - 1] ]
        ELSE FlatLoop(SplitBy(cleanContent, "\n"), 1, opts.maxChunkSize,
                      opts.chunkOverlap,
                      [ chunks |-> <<>>, currentChunk |-> <<>>, chunkStart |-> 1,
                        currentLine |-> 1, chunkIndex |-> 0 ])

\* content.match(/^#\s+(.+)$/m) tried at i: the text of group 1, or Null.
\* \s+ gives back white space until a rest of a line of one character or more
\* follows it.
TitleMatchAt(content, i) ==
    IF ~(AtLineStart(content, i) /\ i <= Len(content) /\ content[i] = "#")
    THEN Null
    ELSE LET wsEnd == SkipWhile(content, i + 1, WhiteSpace)   \* after the run
             starts == { g \in (i + 2)..wsEnd :
                           g <= Len(content) /\ content[g] \notin LineTerminators }
         IN  IF starts = {} THEN Null
             ELSE LET g == CHOOSE x \in starts : \A y \in starts : y <= x
                  IN  SubSeq(content, g, SkipUntil(content, g, LineTerminators) - 1)

RECURSIVE FirstTitle(_, _)
FirstTitle(content, i) ==
    IF i > Len(content) THEN Null
    ELSE IF TitleMatchAt(content, i) # Null THEN TitleMatchAt(content, i)
    ELSE FirstTitle(content, i + 1)

LowerCase(c) ==
    IF c = "M" THEN "m" ELSE IF c = "D" THEN "d" ELSE IF c = "X" THEN "x" ELSE c

\* fallbackFilename.replace(/\.(md|mdx)$/i, '')
StripMarkdownExtension(name) ==
    LET low == [k \in 1..Len(name) |-> LowerCase(name[k])]
        n   == Len(name)
    IN  IF n >= 3 /\ SubSeq(low, n - 2, n) = <<".", "m", "d">>
        THEN SubSeq(name, 1, n - 3)
        ELSE IF n >= 4 /\ SubSeq(low, n - 3, n) = <<".", "m", "d", "x">>
        THEN SubSeq(name, 1, n - 4)
        ELSE name

\* extractTitle
extractTitle(content, fallbackFilename) ==
    IF FirstTitle(content, 1) # Null
    THEN Trim(FirstTitle(content, 1))
    ELSE StripMarkdownExtension(fallbackFilename)

-----------------------------------------------------------------------------
(* node:path (posix) on texts, as far as handleReadFile uses it *)

RECURSIVE JoinWith(_, _)
JoinWith(segs, c) ==
    IF segs = <<>> THEN <<>>
    ELSE IF Len(segs) = 1 THEN Head(segs)
    ELSE Head(segs) \o <<c>> \o JoinWith(Tail(segs), c)

\* normalizeString of an absolute path: "" and "." are dropped, ".." removes the
\* segment before it and is dropped at the root
RECURSIVE NormalizeSegments(_, _)
NormalizeSegments(segs, stack) ==
    IF segs = <<>> THEN stack
    ELSE LET g == Head(segs)
         IN  IF g = <<>> \/ g = <<".">>
             THEN NormalizeSegments(Tail(segs), stack)
             ELSE IF g = <<".", ".">>
             THEN NormalizeSegments(Tail(segs),
                      IF stack = <<>> THEN stack
                      ELSE SubSeq(stack, 1, Len(stack) - 1))
             ELSE NormalizeSegments(Tail(segs), Append(stack, g))

\* path.normalize of an absolute path (a trailing separator is kept)
PathNormalize(abs) ==
    LET body == JoinWith(NormalizeSegments(SplitBy(abs, "/"), <<>>), "/")
    IN  IF body # <<>> /\ abs[Len(abs)] = "/"
        THEN <<"/">> \o body \o <<"/">>
        ELSE <<"/">> \o body

\* path.join(dir, rel) for an absolute dir: empty arguments are skipped
PathJoin(dir, rel) ==
    IF rel = <<>> THEN PathNormalize(dir)
    ELSE PathNormalize(dir \o <<"/">> \o rel)

\* path.resolve of an absolute path (no trailing separator)
PathResolve(abs) ==
    <<"/">> \o JoinWith(NormalizeSegments(SplitBy(abs, "/"), <<>>), "/")

\* String.prototype.startsWith
StartsWith(s, prefix) ==
    /\ Len(prefix) <= Len(s)
    /\ SubSeq(s, 1, Len(prefix)) = prefix

-----------------------------------------------------------------------------
(* McpDocServer.handleReadFile *)

\* config.docsPath of the served base, and what is on the disk
DocsPath == <<"/", "d">>

DiskFiles == { <<"/", "d", "/", "x">>, <<"/", "d", "x">>, <<"/", "x">> }
DiskDirs  == { <<"/">>, <<"/", "d">> }

\* the response of read_file: an error text, or the content of a file
ReadDenied   == [isError |-> TRUE,  kind |-> "denied",   file |-> Null]
ReadNotFound == [isError |-> TRUE,  kind |-> "notFound", file |-> Null]
ReadFailed   == [isError |-> TRUE,  kind |-> "failed",   file |-> Null]
ReadContent(file) == [isError |-> FALSE, kind |-> "content", file |-> file]

\* the security check of handleReadFile: resolvedPath.startsWith(resolvedDocsPath)
InsideCheck(resolvedPath, resolvedDocsPath) ==
    StartsWith(resolvedPath, resolvedDocsPath)

\* handleReadFile
HandleReadFile(docsPath, file_path) ==
    LET fullPath         == PathJoin(docsPath, file_path)
        resolvedPath     == PathResolve(fullPath)
        resolvedDocsPath == PathResolve(docsPath)
    IN  IF ~InsideCheck(resolvedPath, resolvedDocsPath) THEN ReadDenied
        ELSE IF resolvedPath \notin DiskFiles \cup DiskDirs THEN ReadNotFound
        ELSE IF resolvedPath \in DiskDirs THEN ReadFailed   \* readFileSync: EISDIR
        ELSE ReadContent(resolvedPath)

-----------------------------------------------------------------------------
(* The per-file ingest of init and update *)

\* path.basename
Basename(file) ==
    LET segs == SplitBy(file, "/") IN segs[Len(segs)]

\* crypto.createHash('md5').update(content).digest('hex'): one digest per content
Md5(content) == <<"md5", content>>

\* the vector the embedding model answers for a text (a fixed model: the same
\* text gives the same vector)
VectorList == << <<0, 0>>, <<3, 0>>, <<0, 4>>, <<3, 4>> >>
EmbedText(text) == VectorList[(Len(text) % 4) + 1]

\* what an embedBatch call can do: answer one vector per text, in order; throw
\* (backend unreachable, request rejected); answer vectors of another length
\* than the dimension the base was created with
EmbedOutcomes == {"ok", "throws", "baddim"}

\* the data of the backend's response to a batch: one item per text, each with
\* the 0-based index of its text; the items come in any order (here: reversed)
ResponseData(outcome, texts) ==
    [ k \in 1..Len(texts) |->
        [ embedding |-> IF outcome = "ok" THEN EmbedText(texts[Len(texts) + 1 - k])
                        ELSE <<3>>,
          index |-> Len(texts) - k ] ]

\* embedBatch that keeps the items in the order of the response
embedBatchUnsorted(outcome, texts) ==
    [ k \in 1..Len(texts) |-> ResponseData(outcome, texts)[k].embedding ]

\* provider.embedBatch(texts), when it does not throw: the embeddings of the
\* response's items, sorted by index
embedBatch(outcome, texts) ==
    [ k \in 1..Len(texts) |->
        LET item == CHOOSE it \in { ResponseData(outcome, texts)[j] : j \in 1..Len(texts) } :
                       it.index = k - 1
        IN  item.embedding ]

\* the addChunk loop: the first addChunk that throws ends it
RECURSIVE AddChunks(_, _, _, _, _)
AddChunks(d, docId, chunks, embeddings, i) ==
    IF i > Len(chunks) THEN [ db |-> d, ok |-> TRUE ]
    ELSE LET r == AddChunk(d, [ documentId |-> docId,
                                content |-> chunks[i].content,
                                chunkIndex |-> chunks[i].index,
                                lineStart |-> chunks[i].lineStart,
                                lineEnd |-> chunks[i].lineEnd,
                                heading |-> chunks[i].heading ],
                           embeddings[i])
         IN  IF r.ok THEN AddChunks(r.db, docId, chunks, embeddings, i + 1)
             ELSE [ db |-> r.db, ok |-> FALSE ]

\* after the addChunk loop: the pass succeeded, or the exception of an addChunk
\* was caught
Stored(st, n, counted) ==
    [ db |-> st.db, result |-> IF st.ok THEN "ok" ELSE "error",
      counted |-> counted, embedCalled |-> TRUE, chunks |-> n ]

\* the tail of the loops without the test for no chunks: an empty batch is
\* embedded
EmbedStoreEmptyBatch(d, docId, chunks, outcome, counted) ==
    IF outcome = "throws"
    THEN [ db |-> d, result |-> "error", counted |-> counted,
           embedCalled |-> TRUE, chunks |-> 0 ]
    ELSE Stored(AddChunks(d, docId, chunks,
                          embedBatch(outcome, [k \in 1..Len(chunks) |-> chunks[k].content]),
                          1),
                Len(chunks), counted)

\* embed and store the chunks of a file: the tail shared by the loops of init
\* and update.  result: "ok", "empty" (no chunk: a warning) or "error" (caught,
\* counted)
EmbedStore(d, docId, chunks, outcome, counted) ==
    IF Len(chunks) = 0
    THEN [ db |-> d, result |-> "empty", counted |-> counted,
           embedCalled |-> FALSE, chunks |-> 0 ]
    ELSE IF outcome = "throws"
    THEN [ db |-> d, result |-> "error", counted |-> counted,
           embedCalled |-> TRUE, chunks |-> 0 ]
    ELSE Stored(AddChunks(d, docId, chunks,
                          embedBatch(outcome, [k \in 1..Len(chunks) |-> chunks[k].content]),
                          1),
                Len(chunks), counted)

\* chunk, then embed and store
ChunkEmbedStore(d, docId, content, outcome, counted) ==
    EmbedStore(d, docId, chunkMarkdown(content, DEFAULT_OPTIONS), outcome, counted)

ReadError == [ result |-> "error", counted |-> "none", embedCalled |-> FALSE,
               chunks |-> 0 ]

\* a variant of update's loop body that keeps the old chunks of an existing document
UpdateFileNoDelete(d, file, content, force, outcome) ==
    IF content = ENOENT THEN [ db |-> d ] @@ ReadError
    ELSE IF ~(force \/ DocumentNeedsUpdate(d, file, Md5(content)))
    THEN [ db |-> d, result |-> "skipped", counted |-> "skipped",
           embedCalled |-> FALSE, chunks |-> 0 ]
    ELSE LET up == UpsertDocument(d, [ filePath |-> file,
                                       title |-> extractTitle(content, Basename(file)),
                                       lastModified |-> 1,
                                       fileHash |-> Md5(content) ])
         IN  ChunkEmbedStore(up.db, up.id, content, outcome,
                             IF HasDocument(d, file) THEN "updated" ELSE "added")

\* a variant of update's loop body whose staleness check ignores force
UpdateFileForceIgnored(d, file, content, force, outcome) ==
    IF content = ENOENT THEN [ db |-> d ] @@ ReadError
    ELSE IF ~DocumentNeedsUpdate(d, file, Md5(content))
    THEN [ db |-> d, result |-> "skipped", counted |-> "skipped",
           embedCalled |-> FALSE, chunks |-> 0 ]
    ELSE LET d1 == IF HasDocument(d, file)
                   THEN DeleteDocumentChunks(d, GetDocumentByPath(d, file).id)
                   ELSE d
             up == UpsertDocument(d1, [ filePath |-> file,
                                        title |-> extractTitle(content, Basename(file)),
                                        lastModified |-> 1,
                                        fileHash |-> Md5(content) ])
         IN  ChunkEmbedStore(up.db, up.id, content, outcome,
                             IF HasDocument(d, file) THEN "updated" ELSE "added")

\* the body of update's loop for one file; content is ENOENT when readFileSync
\* or statSync throws.  The modification time of the file is not modelled.
UpdateFile(d, file, content, force, outcome) ==
    IF content = ENOENT THEN [ db |-> d ] @@ ReadError
    ELSE IF ~(force \/ DocumentNeedsUpdate(d, file, Md5(content)))
    THEN [ db |-> d, result |-> "skipped", counted |-> "skipped",
           embedCalled |-> FALSE, chunks |-> 0 ]
    ELSE LET d1 == IF HasDocument(d, file)
                   THEN DeleteDocumentChunks(d, GetDocumentByPath(d, file).id)
                   ELSE d
             up == UpsertDocument(d1, [ filePath |-> file,
                                        title |-> extractTitle(content, Basename(file)),
                                        lastModified |-> 1,
                                        fileHash |-> Md5(content) ])
         IN  ChunkEmbedStore(up.db, up.id, content, outcome,
                             IF HasDocument(d, file) THEN "updated" ELSE "added")

\* the body of init's loop for one file
InitFile(d, file, content, outcome) ==
    IF content = ENOENT THEN [ db |-> d ] @@ ReadError
    ELSE LET up == UpsertDocument(d, [ filePath |-> file,
                                       title |-> extractTitle(content, Basename(file)),
                                       lastModified |-> 1,
                                       fileHash |-> Md5(content) ])
         IN  ChunkEmbedStore(up.db, up.id, content, outcome, "processed")

\* setInfo: INSERT OR REPLACE INTO db_info
SetInfo(d, key, value) ==
    [d EXCEPT !.info = [k \in DOMAIN @ \cup {key} |->
                           IF k = key THEN value ELSE @[k]]]

\* glob('**/*.{md,mdx}'): the files present, here in the order a.md, b.md
Glob(files) ==
    (IF files[PathA] # ENOENT THEN <<PathA>> ELSE <<>>)
    \o (IF files[PathB] # ENOENT THEN <<PathB>> ELSE <<>>)

InSeq(x, seq) == \E k \in 1..Len(seq) : seq[k] = x

\* a variant of update that leaves the documents of removed files as they are
DeleteRemovedKeepChunks(d, files) == d

\* update's loop over toDelete: deleteDocumentChunks for every document whose
\* path is not among the current files
RECURSIVE DeleteRemoved(_, _)
DeleteRemoved(d, files) ==
    LET toDelete == {r \in d.documents : ~InSeq(r.file_path, files)}
        withChunks == {r \in toDelete : \E c \in d.chunks : c.document_id = r.id}
    IN  IF withChunks = {} THEN d
        ELSE DeleteRemoved(DeleteDocumentChunks(d, (CHOOSE r \in withChunks : TRUE).id),
                           files)

\* the chunk contents of the document at path, in the order of their rowids
RECURSIVE TextsInIdOrder(_)
TextsInIdOrder(rows) ==
    IF rows = {} THEN <<>>
    ELSE LET first == CHOOSE r \in rows : \A o \in rows : r.id <= o.id
         IN  <<first.content>> \o TextsInIdOrder(rows \ {first})

ChunksOfPath(d, path) ==
    IF HasDocument(d, path)
    THEN {c \in d.chunks : c.document_id = GetDocumentByPath(d, path).id}
    ELSE {}

DocChunkTexts(d, path) == TextsInIdOrder(ChunksOfPath(d, path))

-----------------------------------------------------------------------------
(* Direct calls of the VectorDatabase methods, with any arguments *)

\* DEFAULT_CONFIG.global.ollamaEndpoint
OllamaEndpoint == "http://localhost:11434"

\* no BaseConfig: what getBaseConfig finds for an unregistered name, and the
\* absent second argument of getApiKey and getEndpoint
NoBaseConfig == [ name |-> Null, docsPath |-> Null, provider |-> Null,
                  model |-> Null, embeddingDimension |-> 0,
                  endpoint |-> Null, apiKey |-> Null, description |-> Null ]

createBaseConfig(options) ==
    [ name |-> options.name, docsPath |-> options.docsPath,
      provider |-> options.provider, model |-> options.model,
      embeddingDimension |-> options.embeddingDimension,
      endpoint |-> options.endpoint, apiKey |-> options.apiKey,
      description |-> options.description ]

\* the key of the environment and of the global configuration: none is set
getApiKey(provider, baseConfig) ==
    IF baseConfig.apiKey # Null THEN baseConfig.apiKey ELSE Null

getEndpoint(provider, baseConfig) ==
    IF baseConfig.endpoint # Null THEN baseConfig.endpoint
    ELSE IF provider = "ollama" THEN OllamaEndpoint
    ELSE Null

NoBase == [ dbFile |-> FALSE, dbOpen |-> 0, registered |-> FALSE,
            base |-> NoBaseConfig,
            createdAt |-> 0, lastUpdated |-> 0, clock |-> 0 ]

NoRun == [ pc |-> "idle", cmd |-> "none", exit |-> "none", force |-> FALSE,
           rerun |-> FALSE,
           files |-> <<>>, i |-> 1, results |-> <<>>,
           added |-> 0, updated |-> 0, deleted |-> 0, skipped |-> 0, errors |-> 0,
           processedFiles |-> 0, totalChunks |-> 0, rowsBefore |-> {} ]

NoGhost == [ content |-> [p \in Paths |-> ENOENT],
             result  |-> [p \in Paths |-> "none"],
             texts   |-> [p \in Paths |-> <<>>] ]

NoCall == [op |-> "none"]

NoRead == [op |-> "none"]

NoChunking == [ op |-> "none" ]

\* the McpDocServerConfig of a server that was not constructed
NoServerConfig == [ provider |-> Null, model |-> Null,
                    endpoint |-> Null, apiKey |-> Null ]

NoServer == [ embeddingProvider |-> Null, state |-> "down",
              config |-> NoServerConfig ]

NoHist == [ firstId  |-> [p \in Paths |-> 0],
            lastHash |-> [p \in Paths |-> Null] ]

Init ==
    /\ db = NewDatabase(embeddingDimension)
    /\ call = NoCall
    /\ hist = NoHist
    /\ rd = NoRead
    /\ srv = NoServer
    /\ fs = [p \in Paths |-> ENOENT]
    /\ sys = NoBase
    /\ run = NoRun
    /\ ghost = NoGhost
    /\ ck = NoChunking

CallUpsertDocument ==
    \E p \in Paths, t \in Titles, h \in Hashes :
        /\ HasDocument(db, p) \/ db.docSeq < MaxDocSeq
        /\ LET r == UpsertDocument(db, [ filePath |-> p, title |-> t,
                                         lastModified |-> 1, fileHash |-> h ])
           IN  /\ db' = r.db
               /\ call' = [ op |-> "upsertDocument", path |-> p,
                            seen |-> hist.firstId[p] # 0, id |-> r.id ]
               /\ hist' = [hist EXCEPT !.firstId[p] = IF @ = 0 THEN r.id ELSE @,
                                       !.lastHash[p] = h]
        /\ UNCHANGED <<mcpVars, indexVars, ck>>

CallDocumentNeedsUpdate ==
    \E p \in Paths, h \in Hashes :
        /\ call' = [ op |-> "documentNeedsUpdate", path |-> p, hash |-> h,
                     result |-> DocumentNeedsUpdate(db, p, h) ]
        /\ UNCHANGED <<db, hist, mcpVars, indexVars, ck>>

CallDeleteDocumentChunks ==
    \E id \in 1..MaxDocSeq :
        /\ db' = DeleteDocumentChunks(db, id)
        /\ call' = [ op |-> "deleteDocumentChunks", documentId |-> id ]
        /\ UNCHANGED <<hist, mcpVars, indexVars, ck>>

CallAddChunk ==
    \E id \in 1..MaxDocSeq, text \in ChunkTexts, e \in StoredVectors :
        /\ db.chunkSeq < MaxChunkSeq
        /\ LET r == AddChunk(db, [ documentId |-> id, content |-> text,
                                   chunkIndex |-> 0, lineStart |-> 1,
                                   lineEnd |-> 1, heading |-> Null ], e)
           IN  /\ db' = r.db
               /\ call' = [ op |-> "addChunk", dimension |-> Len(e),
                            ok |-> r.ok ]
        /\ UNCHANGED <<hist, mcpVars, indexVars, ck>>

CallSearch ==
    \E q \in QueryVectors, k \in 1..MaxK :
        /\ IF Len(q) # db.dimension
           THEN call' = [ op |-> "search", query |-> q, k |-> k, ok |-> FALSE,
                          results |-> <<>> ]
           ELSE \E res \in Search(db, q, k) :
                  call' = [ op |-> "search", query |-> q, k |-> k, ok |-> TRUE,
                            results |-> res ]
        /\ UNCHANGED <<db, hist, mcpVars, indexVars, ck>>

Next ==
    \/ CallUpsertDocument
    \/ CallDocumentNeedsUpdate
    \/ CallDeleteDocumentChunks
    \/ CallAddChunk
    \/ CallSearch

Spec == Init /\ [][Next]_vars

-----------------------------------------------------------------------------
(* Claims about the VectorDatabase methods (specification Spec) *)

\* C1: after any sequence of addChunk and deleteDocumentChunks calls, getStats
\* reports as many chunks as embeddings.
C1_StatsChunksEqualEmbeddings ==
    GetStats(db).chunks = GetStats(db).embeddings

\* C2: an addChunk whose embedding has another length than the configured
\* dimension fails and leaves the chunks and the embeddings of the store as
\* they were before the call.
C2_FailedAddChunkChangesNothing ==
    [][ (call'.op = "addChunk" /\ call'.dimension # db.dimension)
          => /\ ~call'.ok
             /\ db'.chunks = db.chunks
             /\ db'.embeddings = db.embeddings ]_vars

RowsOfPath(p) == {r \in db.documents : r.file_path = p}

\* C3: one document row per distinct path that was upserted, and an
\* upsertDocument on a path already upserted returns the id the first
\* upsertDocument on that path returned.
C3_OneRowPerPathSameId ==
    /\ \A p \in Paths :
          Cardinality(RowsOfPath(p)) = IF hist.firstId[p] # 0 THEN 1 ELSE 0
    /\ (call.op = "upsertDocument" /\ call.seen)
          => call.id = hist.firstId[call.path]

\* a path upserted before has been upserted again, with another path present
C3_Witness ==
    /\ call.op = "upsertDocument"
    /\ call.seen
    /\ Cardinality(db.documents) = 2

\* C4: documentNeedsUpdate(path, hash) is true when no document exists at path,
\* false when hash is the hash last passed to upsertDocument for the path, and
\* true for every other hash.
C4_NeedsUpdateIffHashDiffers ==
    call.op = "documentNeedsUpdate" =>
        /\ ~HasDocument(db, call.path) => call.result
        /\ (HasDocument(db, call.path) /\ hist.lastHash[call.path] = call.hash)
              => ~call.result
        /\ (HasDocument(db, call.path) /\ hist.lastHash[call.path] # call.hash)
              => call.result

\* documentNeedsUpdate has answered for a path whose hash was replaced
C4_Witness ==
    /\ call.op = "documentNeedsUpdate"
    /\ ~call.result
    /\ hist.lastHash[call.path] = "h2"

\* a / b >= c / d for fractions with positive denominators
FracGeq(x, y) == x.num * y.den >= y.num * x.den

\* C10: search(q, k) returns at most k results, by non-decreasing distance and
\* non-increasing score, each score being 1 / (1 + distance), within (0, 1].
C10_SearchAtMostKSorted ==
    (call.op = "search" /\ call.ok) =>
        LET rs == call.results
        IN  /\ Len(rs) <= call.k
            /\ \A i \in 1..Len(rs) :
                  /\ rs[i].score.den > 0
                  /\ rs[i].score.num * (1 + rs[i].distance) = rs[i].score.den
                  /\ 0 < rs[i].score.num
                  /\ rs[i].score.num <= rs[i].score.den
            /\ \A i, j \in 1..Len(rs) :
                  i < j => /\ rs[i].distance <= rs[j].distance
                           /\ FracGeq(rs[i].score, rs[j].score)

\* a search has returned k = 2 results at different distances out of more embeddings
C10_Witness ==
    /\ call.op = "search"
    /\ call.ok
    /\ Len(call.results) = 2
    /\ call.results[1].distance < call.results[2].distance
    /\ Cardinality(db.embeddings) > call.k

-----------------------------------------------------------------------------
(* read_file requests of the MCP server (specification SpecRead) *)

MaxPathLen == 5

PathChars == {"/", ".", "d", "x"}

RECURSIVE TextsUpTo(_, _)
TextsUpTo(chars, n) ==
    IF n = 0 THEN {<<>>}
    ELSE LET shorter == TextsUpTo(chars, n - 1)
         IN  shorter \cup { <<c>> \o t : c \in chars, t \in {u \in shorter : Len(u) = n - 1} }

\* a read_file request arrives and is answered
CallReadFile ==
    /\ rd.op = "none"
    /\ \E file_path \in TextsUpTo(PathChars, MaxPathLen) :
          rd' = [ op |-> "read_file", file_path |-> file_path,
                  response |-> HandleReadFile(DocsPath, file_path) ]
    /\ UNCHANGED <<storeVars, srv, indexVars, ck>>

\* the response is sent; the server waits for the next request
ReadFileReturn ==
    /\ rd.op = "read_file"
    /\ rd' = NoRead
    /\ UNCHANGED <<storeVars, srv, indexVars, ck>>

NextRead == CallReadFile \/ ReadFileReturn

SpecRead == Init /\ [][NextRead]_vars

\* the segments of an absolute path lie under those of the root
Under(path, root) ==
    LET a == NormalizeSegments(SplitBy(path, "/"), <<>>)
        b == NormalizeSegments(SplitBy(root, "/"), <<>>)
    IN  Len(b) <= Len(a) /\ SubSeq(a, 1, Len(b)) = b

\* C9: read_file never returns the content of a file outside the docs root: a
\* file_path that resolves outside the root is refused with an error.
C9_NoContentOutsideRoot ==
    rd.op = "read_file" =>
        /\ rd.response.kind = "content" => Under(rd.response.file, DocsPath)
        /\ ~Under(PathResolve(PathJoin(DocsPath, rd.file_path)), DocsPath)
              => rd.response.isError /\ rd.response.file = Null


-----------------------------------------------------------------------------
(* search_docs requests of the MCP server (specification SpecServe) *)

DefaultLimit == 5

QueryTexts == {<<"q">>, <<"q", "q">>}

\* the arguments of a search_docs call: a query, and a limit or none
SearchArgs ==
    [query : QueryTexts] \cup [query : QueryTexts, limit : 1..MaxK]

\* what creating the provider can do, and what provider.embed(query) can do
CreateOutcomes == {"ok", "throws"}

\* getEmbeddingProvider: the provider kept from an earlier call, or a new one;
\* createEmbeddingProvider throws on a missing key, endpoint or unknown type
GetEmbeddingProvider(server, createOutcome) ==
    IF server.embeddingProvider # Null
    THEN [ ok |-> TRUE, server |-> server ]
    ELSE IF createOutcome = "ok"
         THEN [ ok |-> TRUE, server |-> [server EXCEPT !.embeddingProvider = "provider"] ]
         ELSE [ ok |-> FALSE, server |-> server ]

\* provider.embed(query), when it does not throw
Embed(outcome, text) == embedBatch(outcome, <<text>>)[1]

SearchFailed(server) ==
    [ kind |-> "response", isError |-> TRUE, text |-> "Search failed",
      results |-> <<>>, server |-> server ]

SearchAnswered(server, results) ==
    [ kind |-> "response", isError |-> FALSE,
      text |-> IF Len(results) = 0 THEN "No relevant documentation found"
               ELSE "Found",
      results |-> results, server |-> server ]

SearchThrown(server) ==
    [ kind |-> "thrown", isError |-> FALSE, text |-> "", results |-> <<>>,
      server |-> server ]

\* handleSearchDocs without its catch: a failure leaves the handler
HandleSearchDocsNoCatch(d, server, createOutcome, embedOutcome, args) ==
    LET limit == IF "limit" \in DOMAIN args THEN args.limit ELSE DefaultLimit
        p == GetEmbeddingProvider(server, createOutcome)
    IN  IF ~p.ok THEN {SearchThrown(p.server)}
        ELSE IF embedOutcome = "throws" THEN {SearchThrown(p.server)}
        ELSE IF Len(Embed(embedOutcome, args.query)) # d.dimension
             THEN {SearchThrown(p.server)}
        ELSE { SearchAnswered(p.server, res) :
                 res \in Search(d, Embed(embedOutcome, args.query), limit) }

\* handleSearchDocs(args): the possible responses, with the server afterwards
HandleSearchDocs(d, server, createOutcome, embedOutcome, args) ==
    LET limit == IF "limit" \in DOMAIN args THEN args.limit ELSE DefaultLimit
        p == GetEmbeddingProvider(server, createOutcome)
    IN  IF ~p.ok THEN {SearchFailed(p.server)}
        ELSE IF embedOutcome = "throws" THEN {SearchFailed(p.server)}
        ELSE IF Len(Embed(embedOutcome, args.query)) # d.dimension
             THEN {SearchFailed(p.server)}
        ELSE { SearchAnswered(p.server, res) :
                 res \in Search(d, Embed(embedOutcome, args.query), limit) }

\* a search_docs request arrives and is answered
CallSearchDocs ==
    /\ rd.op = "none"
    /\ \E args \in SearchArgs, embedOutcome \in EmbedOutcomes,
          createOutcome \in IF srv.embeddingProvider = Null THEN CreateOutcomes
                            ELSE {"ok"} :
          \E r \in HandleSearchDocs(db, srv, createOutcome, embedOutcome, args) :
             /\ rd' = [ op |-> "search_docs", args |-> args,
                        createOutcome |-> createOutcome,
                        embedOutcome |-> embedOutcome,
                        kind |-> r.kind, isError |-> r.isError,
                        text |-> r.text, results |-> r.results ]
             /\ srv' = r.server
    /\ UNCHANGED <<storeVars, indexVars, ck>>

\* the response is sent; the server waits for the next request
SearchDocsReturn ==
    /\ rd.op = "search_docs"
    /\ rd' = NoRead
    /\ UNCHANGED <<storeVars, srv, indexVars, ck>>

NextServe ==
    \/ CallUpsertDocument
    \/ CallAddChunk
    \/ CallSearchDocs
    \/ SearchDocsReturn

SpecServe == Init /\ [][NextServe]_vars

-----------------------------------------------------------------------------
(* The init and update commands on one docs root (specification SpecIndex) *)

MaxRuns == 2      \* commands started
MaxReruns == 1    \* updates started again after the last command
MaxOpen == 1      \* databases open at a time

\* the contents a file can have: one section, two sections under headings, and
\* a blank line with a component, of which stripping leaves nothing
DocOne == <<"x">>
DocTwo == <<"#", " ", "A", "\n", "x", "\n", "#", " ", "B", "\n", "y", "y">>
DocBlank == <<" ", "\n", "<", "X", "/", ">">>
Contents == {DocOne, DocTwo, DocBlank}

\* a file is written or changed while no command runs
EditFile ==
    /\ run.pc = "idle"
    /\ \E p \in Paths, c \in Contents :
          /\ fs[p] # c
          /\ fs' = [fs EXCEPT ![p] = c]
    /\ UNCHANGED <<storeVars, mcpVars, sys, run, ghost, ck>>

\* a file is removed while no command runs
RemoveFile ==
    /\ run.pc = "idle"
    /\ \E p \in Paths :
          /\ fs[p] # ENOENT
          /\ fs' = [fs EXCEPT ![p] = ENOENT]
    /\ UNCHANGED <<storeVars, mcpVars, sys, run, ghost, ck>>

\* initCommand up to its loop: no base of this name yet; at least one markdown
\* file; the database is created and its metadata stored
InitStart ==
    /\ run.pc = "idle"
    /\ ~sys.dbFile
    /\ sys.clock < MaxRuns
    /\ Glob(fs) # <<>>
    /\ db' = SetInfo(SetInfo(SetInfo(SetInfo(SetInfo(SetInfo(SetInfo(
               NewDatabase(embeddingDimension),
               "name", "docs"), "provider", "ollama"), "model", "nomic-embed-text"),
               "embeddingDimension", embeddingDimension), "docsPath", "/docs"),
               "createdAt", sys.clock + 1), "lastUpdated", sys.clock + 1)
    /\ sys' = [sys EXCEPT !.dbFile = TRUE, !.dbOpen = @ + 1, !.clock = @ + 1]
    /\ run' = [NoRun EXCEPT !.pc = "init", !.cmd = "init", !.files = Glob(fs)]
    /\ UNCHANGED <<call, hist, mcpVars, fs, ghost, ck>>

\* initCommand creating the database before it looks for files
InitNoFilesStoreFirst ==
    /\ run.pc = "idle"
    /\ ~sys.dbFile
    /\ sys.clock < MaxRuns
    /\ Glob(fs) = <<>>
    /\ sys' = [sys EXCEPT !.dbFile = TRUE, !.clock = @ + 1]
    /\ run' = [NoRun EXCEPT !.cmd = "init", !.exit = "failed"]
    /\ UNCHANGED <<storeVars, mcpVars, fs, ghost, ck>>

\* initCommand in a directory without markdown files: the process exits
\* before the database is created
InitNoFiles ==
    /\ run.pc = "idle"
    /\ ~sys.dbFile
    /\ sys.clock < MaxRuns
    /\ Glob(fs) = <<>>
    /\ sys' = [sys EXCEPT !.clock = @ + 1]
    /\ run' = [NoRun EXCEPT !.cmd = "init", !.exit = "failed"]
    /\ UNCHANGED <<storeVars, mcpVars, fs, ghost, ck>>

\* what a pass of init's loop leaves: the store, the counters and the record of
\* the pass
RecordInit(file, content, r) ==
    /\ db' = r.db
    /\ run' = [run EXCEPT
          !.i = @ + 1,
          !.results = Append(@, [ file |-> file, content |-> content,
                                  result |-> r.result, counted |-> r.counted,
                                  embedCalled |-> r.embedCalled ]),
          !.errors = IF r.result = "error" THEN @ + 1 ELSE @,
          !.processedFiles = IF r.result = "ok" THEN @ + 1 ELSE @,
          !.totalChunks = IF r.result = "ok" THEN @ + r.chunks ELSE @]
    /\ ghost' = [ghost EXCEPT
          !.content[file] = content,
          !.result[file]  = r.result,
          !.texts[file]   = DocChunkTexts(r.db, file)]

\* what readFileSync gives: the content of the file, or an exception
ReadFileSync(file, readOk) == IF readOk THEN fs[file] ELSE ENOENT

\* one pass of init's loop
InitIngest ==
    /\ run.pc = "init"
    /\ run.i <= Len(run.files)
    /\ \E readOk \in BOOLEAN, outcome \in EmbedOutcomes :
          RecordInit(run.files[run.i], ReadFileSync(run.files[run.i], readOk),
                     InitFile(db, run.files[run.i],
                              ReadFileSync(run.files[run.i], readOk), outcome))
    /\ UNCHANGED <<call, hist, mcpVars, fs, sys, ck>>

\* init after its loop: the base is registered, the database closed, the
\* summary printed
InitFinish ==
    /\ run.pc = "init"
    /\ run.i > Len(run.files)
    /\ sys' = [sys EXCEPT !.registered = TRUE, !.dbOpen = @ - 1,
                          !.base = createBaseConfig(
                              [ name |-> "docs", docsPath |-> "/docs",
                                provider |-> "ollama",
                                model |-> "nomic-embed-text",
                                embeddingDimension |-> embeddingDimension,
                                endpoint |-> getEndpoint("ollama", NoBaseConfig),
                                apiKey |-> getApiKey("ollama", NoBaseConfig),
                                description |-> "Documentation for docs" ]),
                          !.createdAt = sys.clock, !.lastUpdated = sys.clock]
    /\ run' = [run EXCEPT !.pc = "idle", !.exit = "done"]
    /\ UNCHANGED <<storeVars, mcpVars, fs, ghost, ck>>

\* updateCommand up to its loop over the current files: the base registered
\* for this directory is opened, the provider created, the files enumerated
\* and the chunks of the documents no longer among them deleted
UpdateBegin(force, rerun) ==
    /\ db' = DeleteRemoved(db, Glob(fs))
    /\ run' = [NoRun EXCEPT
          !.pc = "update", !.cmd = "update", !.force = force, !.rerun = rerun,
          !.files = Glob(fs),
          !.deleted = Cardinality({r \in db.documents :
                                     ~InSeq(r.file_path, Glob(fs))}),
          !.rowsBefore = {[id |-> r.id, file_path |-> r.file_path] :
                            r \in db.documents}]
    /\ sys' = [sys EXCEPT !.dbOpen = @ + 1, !.clock = @ + 1]
    /\ UNCHANGED <<call, hist, mcpVars, fs, ghost, ck>>

UpdateStart ==
    /\ run.pc = "idle"
    /\ sys.registered
    /\ sys.clock < MaxRuns
    /\ \E force \in BOOLEAN : UpdateBegin(force, FALSE)

\* the file tree is the one the last run enumerated and read
TreeAsRead ==
    /\ Glob(fs) = run.files
    /\ \A j \in 1..Len(run.results) :
          run.results[j].content = fs[run.results[j].file]

\* updateCommand without force once more, right after a completed update and
\* with the file tree as that update read it (specification SpecRerun)
UpdateRerun ==
    /\ run.pc = "idle"
    /\ run.cmd = "update"
    /\ run.exit = "done"
    /\ ~run.rerun
    /\ sys.clock < MaxRuns + MaxReruns
    /\ TreeAsRead
    /\ UpdateBegin(FALSE, TRUE)

\* createEmbeddingProvider throws in update: the database is closed and the
\* process exits
UpdateProviderFails ==
    /\ run.pc = "idle"
    /\ sys.registered
    /\ sys.clock < MaxRuns
    /\ sys' = [sys EXCEPT !.clock = @ + 1]
    /\ run' = [NoRun EXCEPT !.cmd = "update", !.exit = "failed"]
    /\ UNCHANGED <<storeVars, mcpVars, fs, ghost, ck>>

\* a variant of update's loop that is left at the first failing file
RecordUpdateStopsAtError(file, content, r) ==
    /\ db' = r.db
    /\ run' = [run EXCEPT
          !.i = IF r.result = "error" THEN Len(run.files) + 1 ELSE @ + 1,
          !.results = Append(@, [ file |-> file, content |-> content,
                                  result |-> r.result, counted |-> r.counted,
                                  embedCalled |-> r.embedCalled ]),
          !.added   = IF r.counted = "added" THEN @ + 1 ELSE @,
          !.updated = IF r.counted = "updated" THEN @ + 1 ELSE @,
          !.skipped = IF r.counted = "skipped" THEN @ + 1 ELSE @,
          !.errors  = IF r.result = "error" THEN @ + 1 ELSE @]

\* what a pass of update's loop leaves: the store, the counters and the record
\* of the pass
RecordUpdate(file, content, r) ==
    /\ db' = r.db
    /\ run' = [run EXCEPT
          !.i = @ + 1,
          !.results = Append(@, [ file |-> file, content |-> content,
                                  result |-> r.result, counted |-> r.counted,
                                  embedCalled |-> r.embedCalled ]),
          !.added   = IF r.counted = "added" THEN @ + 1 ELSE @,
          !.updated = IF r.counted = "updated" THEN @ + 1 ELSE @,
          !.skipped = IF r.counted = "skipped" THEN @ + 1 ELSE @,
          !.errors  = IF r.result = "error" THEN @ + 1 ELSE @]

\* one pass of update's loop over the current files
UpdateIngest ==
    /\ run.pc = "update"
    /\ run.i <= Len(run.files)
    /\ \E readOk \in BOOLEAN, outcome \in EmbedOutcomes :
          RecordUpdate(run.files[run.i], ReadFileSync(run.files[run.i], readOk),
                       UpdateFile(db, run.files[run.i],
                                  ReadFileSync(run.files[run.i], readOk),
                                  run.force, outcome))
    /\ UNCHANGED <<call, hist, mcpVars, fs, sys, ghost, ck>>

\* update after its loop: the timestamp is touched, the database closed, the
\* summary printed
UpdateFinish ==
    /\ run.pc = "update"
    /\ run.i > Len(run.files)
    /\ db' = SetInfo(db, "lastUpdated", sys.clock)
    /\ sys' = [sys EXCEPT !.dbOpen = @ - 1, !.lastUpdated = sys.clock]
    /\ run' = [run EXCEPT !.pc = "idle", !.exit = "done"]
    /\ UNCHANGED <<call, hist, mcpVars, fs, ghost, ck>>

NextIndex ==
    \/ EditFile
    \/ RemoveFile
    \/ InitStart
    \/ InitNoFiles
    \/ InitIngest
    \/ InitFinish
    \/ UpdateStart
    \/ UpdateProviderFails
    \/ UpdateIngest
    \/ UpdateFinish

SpecIndex == Init /\ [][NextIndex]_vars

NextRerun ==
    \/ NextIndex
    \/ UpdateRerun

SpecRerun == Init /\ [][NextRerun]_vars

\* the same commands, each running to its end: a started loop takes its next
\* pass and a finished loop goes on to the summary
SpecIndexLive ==
    /\ Init
    /\ [][NextIndex]_vars
    /\ WF_vars(InitIngest)
    /\ WF_vars(InitFinish)
    /\ WF_vars(UpdateIngest)
    /\ WF_vars(UpdateFinish)


-----------------------------------------------------------------------------
(* The commands that open the database: init, update, list and serve
   (specification SpecOpen).  sys.dbOpen counts the VectorDatabase objects
   constructed and not closed. *)

\* listCommand for the registered base: the database is opened, getStats is
\* called and the database closed; when getStats throws, the catch prints
\* "unavailable" and the close is not reached
ListCommand ==
    /\ run.pc = "idle"
    /\ sys.registered
    /\ sys.dbOpen < MaxOpen
    /\ \E statsOk \in BOOLEAN :
          sys' = [sys EXCEPT !.dbOpen = IF statsOk THEN @ ELSE @ + 1]
    /\ run' = [NoRun EXCEPT !.cmd = "list", !.exit = "done"]
    /\ UNCHANGED <<storeVars, mcpVars, fs, ghost, ck>>

\* serveCommand: the server is constructed from the base's configuration and
\* its constructor opens the database; when the transport does not connect,
\* the catch exits the process
ServeStart ==
    /\ srv.state = "down"
    /\ sys.registered
    /\ sys.dbOpen < MaxOpen
    /\ \E connectOk \in BOOLEAN :
          srv' = IF connectOk
                 THEN [srv EXCEPT !.state = "up",
                                  !.config = [ provider |-> sys.base.provider,
                                               model    |-> sys.base.model,
                                               endpoint |-> Null,
                                               apiKey   |-> Null ]]
                 ELSE NoServer
    /\ sys' = [sys EXCEPT !.dbOpen = @ + 1]
    /\ UNCHANGED <<storeVars, rd, fs, run, ghost, ck>>

\* SIGINT or SIGTERM: shutdown closes the database and the process exits
ServeShutdown ==
    /\ srv.state = "up"
    /\ srv' = NoServer
    /\ sys' = [sys EXCEPT !.dbOpen = @ - 1]
    /\ UNCHANGED <<storeVars, rd, fs, run, ghost, ck>>

NextOpen ==
    \/ NextIndex
    \/ ListCommand
    \/ ServeStart
    \/ ServeShutdown

SpecOpen == Init /\ [][NextOpen]_vars

\* C23: the database is open only in a running init or update and in a
\* running server: every operation that has ended, also after a failure, has
\* closed the database it opened.
C23_DatabaseClosedOnEveryExit ==
    sys.dbOpen = (IF run.pc # "idle" THEN 1 ELSE 0)
                 + (IF srv.state = "up" THEN 1 ELSE 0)
-----------------------------------------------------------------------------
(* configCommand and the configuration of the base (specification
   SpecConfig) *)

\* the values given to --set, one for each key tried; "provider" is not
\* among the valid base keys
ConfigValue == [ description |-> "API reference",
                 model       |-> "mxbai-embed-large",
                 endpoint    |-> "http://gpu:11434",
                 provider    |-> "openai" ]

validBaseKeys == {"description", "model", "endpoint"}

\* config --set docs.<baseKey>=<value>: an unknown base or an invalid key
\* exits; a valid key is written to the base's configuration together with
\* a new lastUpdated
ConfigSet ==
    /\ run.pc = "idle"
    /\ sys.clock < MaxRuns
    /\ \E baseKey \in DOMAIN ConfigValue :
          IF sys.registered /\ baseKey \in validBaseKeys
          THEN /\ sys' = [sys EXCEPT !.base[baseKey] = ConfigValue[baseKey],
                                     !.lastUpdated = sys.clock + 1,
                                     !.clock = @ + 1]
               /\ run' = [NoRun EXCEPT !.cmd = "config", !.exit = "done"]
          ELSE /\ sys' = [sys EXCEPT !.clock = @ + 1]
               /\ run' = [NoRun EXCEPT !.cmd = "config", !.exit = "failed"]
    /\ UNCHANGED <<storeVars, mcpVars, fs, ghost, ck>>

NextConfig ==
    \/ NextIndex
    \/ ServeStart
    \/ ServeShutdown
    \/ ConfigSet

SpecConfig == Init /\ [][NextConfig]_vars

\* the configuration update creates its embedding provider with
UpdateProviderConfig(baseConfig) ==
    [ type     |-> baseConfig.provider,
      model    |-> baseConfig.model,
      apiKey   |-> getApiKey(baseConfig.provider, baseConfig),
      endpoint |-> getEndpoint(baseConfig.provider, baseConfig) ]

\* the configuration getEmbeddingProvider of the server creates its
\* embedding provider with
ServerProviderConfig(config) ==
    [ type     |-> config.provider,
      model    |-> config.model,
      apiKey   |-> IF config.apiKey # Null THEN config.apiKey
                   ELSE getApiKey(config.provider, NoBaseConfig),
      endpoint |-> IF config.endpoint # Null THEN config.endpoint
                   ELSE getEndpoint(config.provider, NoBaseConfig) ]

\* C24: once init has registered the base, no step of any command changes
\* its recorded name, provider, model, embedding dimension or source root,
\* nor any other field of its configuration; lastUpdated is the only field
\* that changes and only a step of an update run changes it.
C24_BaseMetadataFixedAfterInit ==
    [][ sys.registered =>
          /\ sys'.registered
          /\ sys'.base = sys.base
          /\ sys'.createdAt = sys.createdAt
          /\ (sys'.lastUpdated # sys.lastUpdated => run.pc = "update")
      ]_vars

\* C30: the server that serve starts for the base creates its embedding
\* provider with the provider type, model, endpoint and API key recorded for
\* the base, those update creates its provider with.
C30_ServerEmbedsAsUpdateDoes ==
    [][ (srv.state = "down" /\ srv'.state = "up") =>
          ServerProviderConfig(srv'.config) = UpdateProviderConfig(sys.base)
      ]_vars

-----------------------------------------------------------------------------
(* Claims about update and init *)

StoredHash(d, file) == GetDocumentByPath(d, file).file_hash

\* C5: in an update run without force, a file that was read and whose
\* fingerprint equals the one stored for its path is counted as skipped, no
\* embedding call is made for it and the store is left as it was; in an update
\* run with force no file is counted as skipped.
C5_UnchangedSkippedForceNeverSkips ==
    [][ (run.pc = "update" /\ run'.pc = "update" /\ run'.i = run.i + 1) =>
          LET file == run.files[run.i]
              res  == run'.results[run.i]
          IN  /\ ( /\ ~run.force
                   /\ res.content # ENOENT
                   /\ HasDocument(db, file)
                   /\ StoredHash(db, file) = Md5(res.content) )
                 => ( /\ res.counted = "skipped"
                      /\ run'.skipped = run.skipped + 1
                      /\ ~res.embedCalled
                      /\ db' = db )
              /\ run.force => ( res.counted # "skipped" /\ run'.skipped = 0 )
      ]_vars

\* an update without force has skipped an unchanged file that has chunks
C5_Witness ==
    /\ run.cmd = "update"
    /\ ~run.force
    /\ \E j \in 1..Len(run.results) :
          /\ run.results[j].counted = "skipped"
          /\ ChunksOfPath(db, run.results[j].file) # {}

NumErrors(results) ==
    Cardinality({j \in 1..Len(results) : results[j].result = "error"})

\* C6: in an init or update run every enumerated file gets its pass in order,
\* whatever happened to the files before it, each failed pass adds exactly one
\* to the error count, and every run that entered its loop reaches its summary.
C6_FailureIsolatedRunCompletes ==
    /\ [] ( run.cmd # "none" /\ run.exit # "failed" =>
              /\ Len(run.results) = run.i - 1
              /\ \A j \in 1..Len(run.results) : run.results[j].file = run.files[j]
              /\ run.errors = NumErrors(run.results)
              /\ run.exit = "done" => Len(run.results) = Len(run.files) )
    /\ ( run.pc # "idle" ~> run.exit = "done" )

\* a run has reached its summary although the first of its two files failed,
\* and the second one was ingested
C6_Witness ==
    /\ run.exit = "done"
    /\ Len(run.results) = 2
    /\ run.results[1].result = "error"
    /\ run.results[2].result = "ok"
    /\ run.errors = 1

\* C7: in and after an update run, every document row that existed when the
\* run started still exists with its id, a row whose path is not among the
\* enumerated files has no chunks, no embedding is left without its chunk,
\* and there are at least as many document rows as before the run.
C7_RemovedPathKeepsRowLosesChunks ==
    run.cmd = "update" /\ run.exit # "failed" =>
        /\ \A b \in run.rowsBefore :
              /\ \E r \in db.documents : r.id = b.id /\ r.file_path = b.file_path
              /\ ~InSeq(b.file_path, run.files) =>
                    {c \in db.chunks : c.document_id = b.id} = {}
        /\ \A e \in db.embeddings : \E c \in db.chunks : c.id = e.chunk_id
        /\ Cardinality(db.documents) >= Cardinality(run.rowsBefore)

\* an update has finished after a file that init had given chunks was removed
C7_Witness ==
    /\ run.cmd = "update"
    /\ run.exit = "done"
    /\ \E b \in run.rowsBefore :
          /\ ~InSeq(b.file_path, run.files)
          /\ ghost.texts[b.file_path] # <<>>

C14_StoredEmbeddingIsOfItsChunk ==
    [][ ( /\ Len(run'.results) = Len(run.results) + 1
          /\ run'.results[Len(run'.results)].result = "ok" ) =>
        LET res    == run'.results[Len(run'.results)]
            chunks == chunkMarkdown(res.content, DEFAULT_OPTIONS)
            texts  == [k \in 1..Len(chunks) |-> chunks[k].content]
            rows   == ChunksOfPath(db', res.file)
        IN  /\ Len(embedBatch("ok", texts)) = Len(texts)
            /\ \A i \in 1..Len(chunks) :
                  /\ embedBatch("ok", texts)[i] = EmbedText(texts[i])
                  /\ \E c \in rows :
                        /\ c.chunk_index = chunks[i].index
                        /\ c.content = texts[i]
                        /\ \E e \in db'.embeddings :
                              /\ e.chunk_id = c.id
                              /\ e.embedding = embedBatch("ok", texts)[i]
            /\ \A c \in rows : \A e \in db'.embeddings :
                  e.chunk_id = c.id => e.embedding = EmbedText(c.content)
      ]_vars

\* a file of two chunks with different embeddings has been ingested
C14_Witness ==
    /\ Len(run.results) > 0
    /\ run.results[Len(run.results)].result = "ok"
    /\ run.results[Len(run.results)].content = DocTwo
    /\ LET rows == ChunksOfPath(db, run.results[Len(run.results)].file)
       IN  /\ Cardinality(rows) = 2
           /\ Cardinality({e.embedding : e \in {x \in db.embeddings :
                                \E c \in rows : c.id = x.chunk_id}}) = 2

\* the contents of the chunks chunkMarkdown makes of a file's content
ChunkTextsOf(content) ==
    [ k \in 1..Len(chunkMarkdown(content, DEFAULT_OPTIONS)) |->
        chunkMarkdown(content, DEFAULT_OPTIONS)[k].content ]

\* the store holds for path exactly the chunks of content, each with its
\* embedding
ReflectsContent(d, path, content) ==
    /\ DocChunkTexts(d, path) = ChunkTextsOf(content)
    /\ \A c \in ChunksOfPath(d, path) :
          \E e \in d.embeddings : e.chunk_id = c.id /\ e.embedding = EmbedText(c.content)

\* C26: while no init or update runs, every path whose stored fingerprint is
\* the fingerprint of the file's current content has in the store exactly
\* the chunks of chunkMarkdown(current content), each with its embedding.
C26_MatchingFingerprintMeansIndexed ==
    run.pc = "idle" =>
        \A p \in Paths :
            ( /\ HasDocument(db, p)
              /\ fs[p] # ENOENT
              /\ StoredHash(db, p) = Md5(fs[p]) )
                => ReflectsContent(db, p, fs[p])

\* C27: when the ingest of a file failed in init after the file was read, a
\* following update without force that reads the same content and meets no
\* failure for the file has ingested it: once the update is done the store
\* holds the chunks of the file.
C27_FailedIngestRetriedByNextUpdate ==
    ( run.cmd = "update" /\ ~run.force /\ run.exit = "done" ) =>
        \A j \in 1..Len(run.results) :
            LET res == run.results[j] IN
            ( /\ ghost.result[res.file] = "error"
              /\ res.content # ENOENT
              /\ res.content = ghost.content[res.file]
              /\ res.result # "error" )
                => /\ res.counted # "skipped"
                   /\ ReflectsContent(db, res.file, res.content)

\* C28: an update without force started right after a completed update, with
\* the file tree unchanged, changes no document, chunk or embedding in any of
\* its steps and counts nothing as added, updated or deleted.
C28_RepeatedUpdateChangesNothing ==
    [][ run'.rerun =>
          /\ db'.documents = db.documents
          /\ db'.chunks = db.chunks
          /\ db'.embeddings = db.embeddings
          /\ run'.added = 0
          /\ run'.updated = 0
          /\ run'.deleted = 0
      ]_vars

\* C29: at the end of an update run the four counters added, updated, skipped
\* and errors, less the errors of the deletions, sum to the number of
\* enumerated files: every file is counted in exactly one of them.
C29_EveryFileCountedOnce ==
    ( run.cmd = "update" /\ run.exit = "done" ) =>
        /\ run.added + run.updated + run.skipped + run.errors = Len(run.files)
        /\ \A j \in 1..Len(run.results) :
              (run.results[j].result = "error") = (run.results[j].counted = "none")

\* texts that are empty or white space only once they are stripped
BlankTexts == { <<>>, <<" ">>, <<"\n">>, <<"\t", "\n", " ">>,
                <<"<", "X", "/", ">">>, DocBlank }

BlankTextsGiveNoChunks ==
    \A t \in BlankTexts :
        /\ stripMdxComponents(t) = <<>>
        /\ chunkMarkdown(t, DEFAULT_OPTIONS) = <<>>
        /\ chunkMarkdown(t, [DEFAULT_OPTIONS EXCEPT !.respectHeadings = FALSE]) = <<>>

\* C20: chunkMarkdown returns no chunk for a text that is empty or white space
\* only after stripping; a pass of init's or update's loop over a file whose
\* chunking is empty calls no embedding, leaves no chunk and no embedding for
\* the file, and leaves the file's document row in the store.
C20_EmptyChunkingStoresNothing ==
    [][ Len(run'.results) = Len(run.results) + 1 =>
        LET res == run'.results[Len(run'.results)]
        IN  /\ BlankTextsGiveNoChunks
            /\ (res.content # ENOENT /\ stripMdxComponents(res.content) = <<>>)
                  => chunkMarkdown(res.content, DEFAULT_OPTIONS) = <<>>
            /\ ( /\ res.content # ENOENT
                 /\ res.result # "skipped"
                 /\ chunkMarkdown(res.content, DEFAULT_OPTIONS) = <<>> )
                  => /\ res.result = "empty"
                     /\ ~res.embedCalled
                     /\ ChunksOfPath(db', res.file) = {}
                     /\ db'.embeddings \subseteq db.embeddings
                     /\ HasDocument(db', res.file)
      ]_vars

\* an update has passed over a file that had chunks and is blank now: its
\* document row is in the store, without chunks
C20_Witness ==
    /\ run.cmd = "update"
    /\ Len(run.results) > 0
    /\ LET res == run.results[Len(run.results)]
       IN  /\ res.content = DocBlank
           /\ res.result = "empty"
           /\ ghost.result[res.file] = "ok"
           /\ HasDocument(db, res.file)
           /\ ChunksOfPath(db, res.file) = {}

\* C22: after an init that found no markdown file, no database file exists
\* for the base, no database is open and the base is not registered.
C22_InitWithoutFilesCreatesNothing ==
    (run.cmd = "init" /\ run.exit = "failed") =>
        /\ ~sys.dbFile
        /\ sys.dbOpen = 0
        /\ ~sys.registered
        /\ db = NewDatabase(embeddingDimension)

\* the first command was an init in a directory without markdown files
C22_Witness ==
    /\ run.cmd = "init"
    /\ run.exit = "failed"
    /\ Glob(fs) = <<>>
    /\ sys.clock = 1
-----------------------------------------------------------------------------
(* Claims about search and deleteDocumentChunks (specification Spec) *)

Min(a, b) == IF a < b THEN a ELSE b

\* C11: a search(q, k) on a store holding N chunks returns min(k, N) results,
\* and no stored embedding left out of the result is strictly closer to q than
\* a result.
C11_SearchReturnsKNearest ==
    (call.op = "search" /\ call.ok) =>
        LET rs       == call.results
            returned == {rs[i].chunkId : i \in 1..Len(rs)}
        IN  /\ Len(rs) = Min(call.k, Cardinality(db.chunks))
            /\ \A e \in db.embeddings :
                  e.chunk_id \notin returned =>
                     \A i \in 1..Len(rs) :
                        rs[i].distance <= Distance(e.embedding, call.query)

\* the document a stored embedding belongs to, through its chunk row
DocumentOfEmbedding(d, e) ==
    {c.document_id : c \in {x \in d.chunks : x.id = e.chunk_id}}

\* C12: deleteDocumentChunks(d) leaves no chunk and no embedding of document d,
\* so that no search returns a result of d, and leaves the document rows and
\* the chunks and embeddings of the other documents as they were.
C12_DeleteRemovesChunksOfDocumentOnly ==
    [][ (call'.op = "deleteDocumentChunks") =>
          LET id == call'.documentId
          IN  /\ db'.documents = db.documents
              /\ db'.chunks = {c \in db.chunks : c.document_id # id}
              /\ db'.embeddings =
                    {e \in db.embeddings : id \notin DocumentOfEmbedding(db, e)}
              /\ \A e \in db'.embeddings : id \notin DocumentOfEmbedding(db', e)
              /\ \A q \in QueryVectors, k \in 1..MaxK :
                    Len(q) = db'.dimension =>
                       \A rs \in Search(db', q, k) :
                          \A i \in 1..Len(rs) : rs[i].documentId # id
      ]_vars

\* chunks of an existing document have been deleted while another document
\* keeps a chunk with its embedding
C12_Witness ==
    /\ call.op = "deleteDocumentChunks"
    /\ \E r \in db.documents : r.id = call.documentId
    /\ db.chunkSeq > Cardinality(db.chunks)
    /\ \E e \in db.embeddings : DocumentOfEmbedding(db, e) # {}


-----------------------------------------------------------------------------
(* chunkMarkdown calls with any text and options (specification SpecChunk) *)

MaxLines == 4     \* lines of a text

\* the lines a text is made of: empty, blank, short, long, two headings and a
\* self-closing component
LineTexts == { <<>>, <<" ">>, <<"a">>, <<"c", "c", "c", "c", "c">>,
               <<"#", " ", "H">>, <<"#", " ", "G">>, <<"<", "X", "/", ">">> }

MarkdownTexts ==
    { JoinWith(lines, "\n") :
        lines \in UNION { [1..n -> LineTexts] : n \in 1..MaxLines } }

ChunkingOptions ==
    [ maxChunkSize : {4, 7}, chunkOverlap : {0, 2}, respectHeadings : BOOLEAN ]

\* chunkMarkdown is called and returns its chunks
CallChunkMarkdown ==
    /\ ck.op = "none"
    /\ \E content \in MarkdownTexts, opts \in ChunkingOptions :
          ck' = [ op |-> "chunkMarkdown", content |-> content, opts |-> opts,
                  chunks |-> chunkMarkdown(content, opts) ]
    /\ UNCHANGED <<storeVars, mcpVars, indexVars>>

\* the caller has used the chunks
ChunkMarkdownReturn ==
    /\ ck.op = "chunkMarkdown"
    /\ ck' = NoChunking
    /\ UNCHANGED <<storeVars, mcpVars, indexVars>>

NextChunk == CallChunkMarkdown \/ ChunkMarkdownReturn

SpecChunk == Init /\ [][NextChunk]_vars

\* the buffers of the flat loop of chunkMarkdown at every chunk it closes
\* before the end of the text: the buffer closed, the line that did not fit
\* and the buffer the next chunk starts with
RECURSIVE FlatCuts(_, _, _, _, _)
FlatCuts(lines, i, maxSize, overlap, currentChunk) ==
    IF i > Len(lines) THEN <<>>
    ELSE LET line == lines[i]
         IN  IF /\ Len(currentChunk) + Len(line) + 1 > maxSize
                /\ currentChunk # <<>>
             THEN <<[ closed |-> currentChunk, sep |-> <<"\n">>, unit |-> line,
                      next |-> SliceLast(currentChunk, overlap) \o <<"\n">> \o line ]>>
                  \o FlatCuts(lines, i + 1, maxSize, overlap,
                              SliceLast(currentChunk, overlap) \o <<"\n">> \o line)
             ELSE FlatCuts(lines, i + 1, maxSize, overlap,
                           IF currentChunk # <<>>
                           THEN currentChunk \o <<"\n">> \o line ELSE line)

\* the same for the paragraph loop of splitSection
RECURSIVE SplitCuts(_, _, _, _, _)
SplitCuts(paragraphs, i, maxSize, overlap, currentChunk) ==
    IF i > Len(paragraphs) THEN <<>>
    ELSE LET paragraph == paragraphs[i]
         IN  IF /\ Len(currentChunk) + Len(paragraph) + 2 > maxSize
                /\ currentChunk # <<>>
             THEN <<[ closed |-> currentChunk, sep |-> <<"\n", "\n">>,
                      unit |-> paragraph,
                      next |-> SliceLast(currentChunk, overlap)
                                 \o <<"\n", "\n">> \o paragraph ]>>
                  \o SplitCuts(paragraphs, i + 1, maxSize, overlap,
                               SliceLast(currentChunk, overlap)
                                 \o <<"\n", "\n">> \o paragraph)
             ELSE SplitCuts(paragraphs, i + 1, maxSize, overlap,
                            IF currentChunk # <<>>
                            THEN currentChunk \o <<"\n", "\n">> \o paragraph
                            ELSE paragraph)

\* the cuts of one section: none when the section fits into one chunk
SectionCuts(section, maxSize, overlap) ==
    IF Len(Trim(section.content)) <= maxSize THEN <<>>
    ELSE SplitCuts(SplitParagraphs(Trim(section.content), 1, <<>>), 1,
                   maxSize, overlap, <<>>)

\* every cut chunkMarkdown(content, opts) makes because the next paragraph or
\* line would exceed maxChunkSize
Cuts(content, opts) ==
    LET cleanContent == stripMdxComponents(content)
    IN  IF opts.respectHeadings
        THEN LET sections == parseIntoSections(cleanContent)
             IN  ConcatAll([ k \in 1..Len(sections) |->
                     SectionCuts(sections[k], opts.maxChunkSize,
                                 opts.chunkOverlap) ])
        ELSE FlatCuts(SplitBy(cleanContent, "\n"), 1, opts.maxChunkSize,
                      opts.chunkOverlap, <<>>)

\* the last n characters of s, none for n = 0
LastChars(s, n) == SubSeq(s, Len(s) - n + 1, Len(s))

CarriesOverlap(cut, overlap) ==
    cut.next = LastChars(cut.closed, Min(overlap, Len(cut.closed)))
                 \o cut.sep \o cut.unit

\* C25: at every cut of a chunkMarkdown call the next buffer starts with
\* exactly the last min(chunkOverlap, length of the closed buffer) characters
\* of the closed buffer, followed by the separator and the paragraph or line
\* that did not fit; with chunkOverlap = 0 it starts with the separator.
C25_NextBufferStartsWithOverlap ==
    (ck.op = "chunkMarkdown") =>
        \A k \in 1..Len(Cuts(ck.content, ck.opts)) :
            CarriesOverlap(Cuts(ck.content, ck.opts)[k], ck.opts.chunkOverlap)

\* two values of a heading field are the same text, or both null
SameHeading(a, b) ==
    IF a = Null \/ b = Null THEN a = Null /\ b = Null ELSE a = b

\* the units a chunk is made of: paragraphs with respectHeadings, lines without
UnitsOf(content, opts) ==
    IF opts.respectHeadings THEN SplitParagraphs(content, 1, <<>>)
    ELSE SplitBy(content, "\n")

\* C15: every chunk is at most maxChunkSize long, except a chunk holding a
\* paragraph (with respectHeadings) or a line (without) that alone is longer
\* than maxChunkSize.
C15_ChunkWithinMaxUnlessOneUnitExceeds ==
    (ck.op = "chunkMarkdown") =>
        \A i \in 1..Len(ck.chunks) :
            \/ Len(ck.chunks[i].content) <= ck.opts.maxChunkSize
            \/ \E u \in 1..Len(UnitsOf(ck.chunks[i].content, ck.opts)) :
                  Len(UnitsOf(ck.chunks[i].content, ck.opts)[u]) > ck.opts.maxChunkSize

\* C16: the chunk at position i of the returned sequence has index i, counted
\* from 0, across sections, with and without respectHeadings.
C16_IndexIsPosition ==
    (ck.op = "chunkMarkdown") =>
        \A i \in 1..Len(ck.chunks) : ck.chunks[i].index = i - 1

\* chunks of two sections, the first of them split in two, were returned
C16_Witness ==
    /\ ck.op = "chunkMarkdown"
    /\ ck.opts.respectHeadings
    /\ Len(ck.chunks) = 3
    /\ SameHeading(ck.chunks[1].heading, ck.chunks[2].heading)
    /\ ~SameHeading(ck.chunks[3].heading, ck.chunks[2].heading)
    /\ ck.chunks[3].index = 2


\* the characters of a text that are not white space
RECURSIVE NonBlank(_)
NonBlank(s) ==
    IF s = <<>> THEN <<>>
    ELSE IF Head(s) \in WhiteSpace THEN NonBlank(Tail(s))
    ELSE <<Head(s)>> \o NonBlank(Tail(s))

EndsWith(s, t) ==
    Len(t) <= Len(s) /\ SubSeq(s, Len(s) - Len(t) + 1, Len(s)) = t

\* the chunks from the i-th on are the text clean from pos on: each chunk is a
\* copy of the end of its predecessor (its overlap, none in the first chunk)
\* followed by the next piece of clean; between the pieces clean has white space only
RECURSIVE Reconstructs(_, _, _, _)
Reconstructs(clean, pos, chunks, i) ==
    IF i > Len(chunks)
    THEN \A j \in pos..Len(clean) : clean[j] \in WhiteSpace
    ELSE \E n \in 0..Len(chunks[i].content) :
            /\ i = 1 => n = 0
            /\ i > 1 => EndsWith(NonBlank(chunks[i - 1].content),
                                 NonBlank(SubSeq(chunks[i].content, 1, n)))
            /\ MatchesAt(clean, TrimStart(From(chunks[i].content, n + 1)),
                         SkipWhile(clean, pos, WhiteSpace))
            /\ Reconstructs(clean,
                            SkipWhile(clean, pos, WhiteSpace)
                              + Len(TrimStart(From(chunks[i].content, n + 1))),
                            chunks, i + 1)

C18_ChunkCarriesHeadingOfItsSection ==
    (ck.op = "chunkMarkdown" /\ ck.opts.respectHeadings) =>
        \A i \in 1..Len(ck.chunks) :
            LET lines == SplitBy(ck.chunks[i].content, "\n")
            IN  /\ \A j \in 2..Len(lines) : HeadingLevel(lines[j]) = 0
                /\ IF HeadingLevel(lines[1]) > 0
                   THEN SameHeading(ck.chunks[i].heading, HeadingText(lines[1]))
                   ELSE IF i = 1 THEN ck.chunks[i].heading = Null
                   ELSE SameHeading(ck.chunks[i].heading, ck.chunks[i - 1].heading)

\* the content before the first heading and two sections gave three chunks
C18_Witness ==
    /\ ck.op = "chunkMarkdown"
    /\ ck.opts.respectHeadings
    /\ Len(ck.chunks) = 3
    /\ ck.chunks[1].heading = Null
    /\ SameHeading(ck.chunks[2].heading, <<"H">>)
    /\ SameHeading(ck.chunks[3].heading, <<"G">>)


\* C19: the line spans of the returned chunks are 1-based and well formed: the
\* first chunk starts at line 1, no chunk ends before it starts, and every
\* chunk starts after the line its predecessor ends at.
C19_LineSpansWellFormed ==
    (ck.op = "chunkMarkdown") =>
        /\ Len(ck.chunks) > 0 => ck.chunks[1].lineStart = 1
        /\ \A i \in 1..Len(ck.chunks) :
              /\ ck.chunks[i].lineStart >= 1
              /\ ck.chunks[i].lineStart <= ck.chunks[i].lineEnd
        /\ \A i \in 2..Len(ck.chunks) :
              ck.chunks[i].lineStart > ck.chunks[i - 1].lineEnd

\* three chunks were returned, the last of them starting after line 3
C19_Witness ==
    /\ ck.op = "chunkMarkdown"
    /\ Len(ck.chunks) = 3
    /\ ck.chunks[1].lineEnd > ck.chunks[1].lineStart
    /\ ck.chunks[3].lineStart > 3


-----------------------------------------------------------------------------
(* extractTitle calls with any text and file name (specification SpecTitle) *)

MaxTitleLines == 3     \* lines of a text

\* the lines a text is made of: a level-1 heading, a mark alone, a level-2
\* heading, plain text, an empty line, an indented heading
TitleLineTexts == { <<"#", " ", "T">>, <<"#">>, <<"#", "#", " ", "S">>,
                    <<"x">>, <<>>, <<" ", "#", " ", "U">> }

TitleTexts ==
    { JoinWith(lines, "\n") :
        lines \in UNION { [1..n -> TitleLineTexts] : n \in 1..MaxTitleLines } }

\* the names glob('**/*.{md,mdx}') gives
FileNames == { <<"a", ".", "m", "d">>, <<"b", ".", "m", "d", "x">> }

\* extractTitle is called and returns the title
CallExtractTitle ==
    /\ ck.op = "none"
    /\ \E content \in TitleTexts, name \in FileNames :
          ck' = [ op |-> "extractTitle", content |-> content, filename |-> name,
                  title |-> extractTitle(content, name) ]
    /\ UNCHANGED <<storeVars, mcpVars, indexVars>>

\* the caller has used the title
ExtractTitleReturn ==
    /\ ck.op = "extractTitle"
    /\ ck' = NoChunking
    /\ UNCHANGED <<storeVars, mcpVars, indexVars>>

NextTitle == CallExtractTitle \/ ExtractTitleReturn

SpecTitle == Init /\ [][NextTitle]_vars

\* a line that is a level-1 heading: one '#', white space, and text after it
IsLevelOneHeading(line) ==
    /\ Len(line) >= 3
    /\ line[1] = "#"
    /\ line[2] \in WhiteSpace
    /\ Trim(From(line, 2)) # <<>>

\* C21: extractTitle returns the text of the first line of the content that is
\* a level-1 heading, and the file name without its .md or .mdx extension
\* when the content has no such line.
C21_TitleIsFirstLevelOneHeadingOrFileName ==
    (ck.op = "extractTitle") =>
        LET lines == SplitBy(ck.content, "\n")
            heads == { j \in 1..Len(lines) : IsLevelOneHeading(lines[j]) }
        IN  IF heads # {}
            THEN ck.title = Trim(From(lines[CHOOSE j \in heads :
                                               \A o \in heads : j <= o], 2))
            ELSE \/ ck.title \o <<".", "m", "d">> = ck.filename
                 \/ ck.title \o <<".", "m", "d", "x">> = ck.filename

=============================================================================
